---- MODULE Spec2Model ----
(***************************************************************************)
(* Model of the spawning-pool crate: the two storage backends of           *)
(* src/storage.rs (VectorStorage, HashMapStorage) and the SpawningPool     *)
(* facade generated by create_spawning_pool! in src/lib.rs, instantiated   *)
(* as                                                                      *)
(*     create_spawning_pool!((Position, pos, VectorStorage),               *)
(*                           (Velocity, vel, HashMapStorage));             *)
(*                                                                         *)
(* Option<T> is modelled as a sequence: None is <<>>, Some(c) is <<c>>.    *)
(* A Vec<Option<T>> is a sequence of such options; index i of the Vec is   *)
(* position i + 1 of the sequence.  EntityId (u64) is modelled at IdWidth  *)
(* bits; arithmetic on it is taken modulo 2^IdWidth unless the build       *)
(* checks overflow, in which case the overflowing operation panics.        *)
(* A panic unwinds out of the call and leaves the object as the call had   *)
(* made it so far; the caller may catch it and go on calling.  A failed    *)
(* allocation aborts the process: no call follows it.                      *)
(***************************************************************************)
EXTENDS Integers, Sequences, FiniteSets, TLC

VARIABLES pool, purged, spawned, dense, sparse, op, panicked, aborted

vars == <<pool, purged, spawned, dense, sparse, op, panicked, aborted>>

(***************************************************************************)
(* Bounds                                                                  *)
(***************************************************************************)
\* width of EntityId in the model (u64 in the source)
IdWidth == 15
\* number of spawn_entity calls explored
MaxSpawn == 2
\* number of distinct component values
MaxComp == 2

Modulus == 2 ^ IdWidth

\* initial number of slots of a VectorStorage
InitialSize == 100

Components == 1 .. MaxComp

\* least id whose double overflows EntityId (2^63 in the source)
WrapId == Modulus \div 2
\* an id at or above the initial capacity of a VectorStorage, below WrapId
HighId == InitialSize + InitialSize \div 2
\* the id of the growth scenario, 250 for an initial size of 100
GrowId == (5 * InitialSize) \div 2

\* size_of::<Option<Position>>(): the bytes of one slot of pos
SlotBytes == 12
\* isize::MAX: a Vec holds at most this many bytes
IsizeMax == Modulus \div 2 - 1
\* the slots the allocator can provide in one allocation: enough for the
\* growth scenario, fewer than IsizeMax bytes hold
MemSlots == 2 * GrowId
\* an id whose growth the allocator cannot serve; no store grows beyond
\* MemSlots slots, so the id is at or above the size of every store
AllocId == MemSlots
\* least id whose growth exceeds IsizeMax bytes (384307168202282326 in the
\* source); IdWidth is wide enough for it to lie above MemSlots, as it lies
\* above the memory of any machine in the source
OverflowId == IsizeMax \div (2 * SlotBytes) + 1

\* ids passed to a bare storage backend: below, at and above the initial
\* capacity, ids whose growth fails, and ids whose double does not fit
\* EntityId
StoreIds == {0, InitialSize, GrowId, AllocId, OverflowId, WrapId}
\* values stored under an id: one value where the growth for the id fails
StoreComponents(id) == IF id < AllocId THEN Components ELSE {1}
\* ids a backend is queried for
ProbeIds == StoreIds \cup {InitialSize \div 2, InitialSize - 1,
                           2 * InitialSize - 1, WrapId + 3, Modulus - 1}

Types == {"pos", "vel"}

(***************************************************************************)
(* Option<T>                                                               *)
(***************************************************************************)
None == <<>>
Some(c) == <<c>>

(***************************************************************************)
(* HashMapStorage<T>: storage: HashMap<EntityId, T>, a function from the   *)
(* ids that hold a component to the component.                             *)
(***************************************************************************)
HashMapStorage_new == [storage |-> [k \in {} |-> 0]]

HashMapStorage_get(self, id) ==
    IF id \in DOMAIN self.storage THEN Some(self.storage[id]) ELSE None

HashMapStorage_get_mut(self, id) ==
    IF id \in DOMAIN self.storage THEN Some(self.storage[id]) ELSE None

\* the iteration orders a HashMap with these keys can produce
KeyOrders(self) ==
    LET keys == DOMAIN self.storage
    IN  {o \in [1 .. Cardinality(keys) -> keys] :
            \A a, b \in 1 .. Cardinality(keys) : o[a] = o[b] => a = b}

\* get_all pushes (k, v) in the map's iteration order, which is unspecified
HashMapStorage_get_all(self, order) ==
    [n \in 1 .. Len(order) |-> <<order[n], self.storage[order[n]]>>]

HashMapStorage_set(self, id, comp) ==
    [storage |-> [k \in (DOMAIN self.storage) \cup {id} |->
                    IF k = id THEN comp ELSE self.storage[k]]]

\* mutant: remove leaves the map as it is
HashMapStorage_remove_keep(self, id) == self

HashMapStorage_remove(self, id) ==
    [storage |-> [k \in (DOMAIN self.storage) \ {id} |-> self.storage[k]]]

\* writing c through the handle get_mut returned for id
HashMapStorage_write(self, id, c) ==
    [storage |-> [self.storage EXCEPT ![id] = c]]

(***************************************************************************)
(* VectorStorage<T>: size: u64, storage: Vec<Option<T>>; cap is            *)
(* Vec::capacity of storage, the slots its allocation has room for, which  *)
(* no method of the store reads                                            *)
(***************************************************************************)
\* mutant: a resize drops the components the slots held
Vec_resize_cleared(v, cap, n) ==
    [vec   |-> [k \in 1 .. n |-> None],
     cap   |-> IF n > cap THEN n ELSE cap,
     panic |-> FALSE,
     abort |-> FALSE]

\* mutant: the slots added by a resize hold a component
Vec_resize_dirty(v, cap, n) ==
    [vec   |-> [k \in 1 .. n |-> IF k <= Len(v) THEN v[k] ELSE Some(1)],
     cap   |-> IF n > cap THEN n ELSE cap,
     panic |-> FALSE,
     abort |-> FALSE]

\* Vec::resize(n, None) on a Vec of capacity cap: truncates, or extends with
\* None.  Extending beyond the capacity allocates room for the larger of n
\* and twice the capacity: a request of more than IsizeMax bytes panics with
\* a capacity overflow, one the allocator cannot serve aborts; both leave
\* the Vec as it was.
Vec_resize(v, cap, n) ==
    IF n <= Len(v)
    THEN [vec |-> SubSeq(v, 1, n), cap |-> cap,
          panic |-> FALSE, abort |-> FALSE]
    ELSE LET c == IF n <= cap THEN cap
                  ELSE IF 2 * cap > n THEN 2 * cap ELSE n
         IN  IF c > cap /\ c * SlotBytes > IsizeMax
             THEN [vec |-> v, cap |-> cap, panic |-> TRUE, abort |-> FALSE]
             ELSE IF c > cap /\ c > MemSlots
             THEN [vec |-> v, cap |-> cap, panic |-> FALSE, abort |-> TRUE]
             ELSE [vec   |-> [k \in 1 .. n |->
                                IF k <= Len(v) THEN v[k] ELSE None],
                   cap   |-> c,
                   panic |-> FALSE,
                   abort |-> FALSE]

VectorStorage_new ==
    [size    |-> InitialSize,
     storage |-> [k \in 1 .. InitialSize |-> None],
     cap     |-> InitialSize]

VectorStorage_get(self, id) ==
    IF id >= self.size
    THEN None
    ELSE IF id < Len(self.storage) THEN self.storage[id + 1] ELSE None

VectorStorage_get_mut(self, id) ==
    IF id >= self.size
    THEN None
    ELSE IF id < Len(self.storage) THEN self.storage[id + 1] ELSE None

\* mutant: the pairs carry the position of the slot counted from one
VectorStorage_get_all_from_one(self) ==
    LET slots == [k \in 1 .. Len(self.storage) |-> <<k, self.storage[k]>>]
        full  == SelectSeq(slots, LAMBDA p : p[2] # None)
    IN  [n \in 1 .. Len(full) |-> <<full[n][1], full[n][2][1]>>]

\* the (id, component) pairs of the non-empty slots, by ascending index
VectorStorage_get_all(self) ==
    LET slots == [k \in 1 .. Len(self.storage) |-> <<k - 1, self.storage[k]>>]
        full  == SelectSeq(slots, LAMBDA p : p[2] # None)
    IN  [n \in 1 .. Len(full) |-> <<full[n][1], full[n][2][1]>>]

\* storage[id] = Some(comp): the index panics when id is out of range
Vec_index_set(self, id, comp) ==
    IF id < Len(self.storage)
    THEN [self  |-> [self EXCEPT !.storage[id + 1] = Some(comp)],
          panic |-> FALSE,
          abort |-> FALSE]
    ELSE [self |-> self, panic |-> TRUE, abort |-> FALSE]

\* overflow_checks: the build panics on integer overflow (debug) or wraps.
\* A resize that fails ends the call before size is assigned.
VectorStorage_set(self, id, comp, overflow_checks) ==
    IF id >= self.size
    THEN IF overflow_checks /\ id * 2 >= Modulus
         THEN [self |-> self, panic |-> TRUE, abort |-> FALSE]
         ELSE LET n == (id * 2) % Modulus
                  r == Vec_resize(self.storage, self.cap, n)
              IN  IF r.panic \/ r.abort
                  THEN [self |-> self, panic |-> r.panic, abort |-> r.abort]
                  ELSE Vec_index_set([size |-> n, storage |-> r.vec,
                                      cap |-> r.cap], id, comp)
    ELSE Vec_index_set(self, id, comp)

\* mutant: remove grows the slots as set does before it clears the slot
VectorStorage_remove_grow(self, id) ==
    IF id < self.size
    THEN [self EXCEPT !.storage[id + 1] = None]
    ELSE LET r == Vec_resize(self.storage, self.cap, (id * 2) % Modulus)
         IN  [size |-> Len(r.vec), storage |-> r.vec, cap |-> r.cap]

VectorStorage_remove(self, id) ==
    IF id < self.size
    THEN [self EXCEPT !.storage[id + 1] = None]
    ELSE self

\* mutant: the handle refers to a copy, the write does not reach the slot
VectorStorage_write_copy(self, id, c) == self

\* writing c through the handle get_mut returned for id
VectorStorage_write(self, id, c) ==
    [self EXCEPT !.storage[id + 1] = Some(c)]

(***************************************************************************)
(* impl ComponentLoader<$component> for SpawningPool                       *)
(***************************************************************************)
get_overloaded(self, ty, id) ==
    IF ty = "pos" THEN VectorStorage_get(self.pos, id)
                  ELSE HashMapStorage_get(self.vel, id)

get_mut_overloaded(self, ty, id) ==
    IF ty = "pos" THEN VectorStorage_get_mut(self.pos, id)
                  ELSE HashMapStorage_get_mut(self.vel, id)

\* order: the iteration order of the HashMap behind vel (unused for pos)
get_all_overloaded(self, ty, order) ==
    IF ty = "pos" THEN VectorStorage_get_all(self.pos)
                  ELSE HashMapStorage_get_all(self.vel, order)

\* mutant: a set of one type also stores the component under the other type
set_overloaded_both(self, ty, id, comp, overflow_checks) ==
    LET r == VectorStorage_set(self.pos, id, comp, overflow_checks)
    IN  [self  |-> [self EXCEPT !.pos = r.self,
                                !.vel = HashMapStorage_set(self.vel, id, comp)],
         panic |-> r.panic,
         abort |-> r.abort]

set_overloaded(self, ty, id, comp, overflow_checks) ==
    IF ty = "pos"
    THEN LET r == VectorStorage_set(self.pos, id, comp, overflow_checks)
         IN  [self  |-> [self EXCEPT !.pos = r.self],
              panic |-> r.panic,
              abort |-> r.abort]
    ELSE [self  |-> [self EXCEPT !.vel = HashMapStorage_set(self.vel, id, comp)],
          panic |-> FALSE,
          abort |-> FALSE]

remove_overloaded(self, ty, id) ==
    IF ty = "pos"
    THEN [self EXCEPT !.pos = VectorStorage_remove(self.pos, id)]
    ELSE [self EXCEPT !.vel = HashMapStorage_remove(self.vel, id)]

write_overloaded(self, ty, id, c) ==
    IF ty = "pos"
    THEN [self EXCEPT !.pos = VectorStorage_write(self.pos, id, c)]
    ELSE [self EXCEPT !.vel = HashMapStorage_write(self.vel, id, c)]

(***************************************************************************)
(* SpawningPool                                                            *)
(***************************************************************************)
SpawningPool_new ==
    [next_id |-> 1,
     removed |-> {},
     pos     |-> VectorStorage_new,
     vel     |-> HashMapStorage_new]

\* the loop body of cleanup_removed, for the ids of the set in any order
RECURSIVE RemoveFromStores(_, _)
RemoveFromStores(self, ids) ==
    IF ids = {}
    THEN self
    ELSE LET id == CHOOSE x \in ids : TRUE
         IN  RemoveFromStores(
                 remove_overloaded(remove_overloaded(self, "pos", id), "vel", id),
                 ids \ {id})

\* mutant: the purge empties the backends
SpawningPool_cleanup_removed_wipe(self) ==
    [self EXCEPT !.removed = {},
                 !.pos = VectorStorage_new,
                 !.vel = HashMapStorage_new]

\* mutant: the tracker is cleared but the backends are not purged
SpawningPool_cleanup_removed_clear_only(self) ==
    [self EXCEPT !.removed = {}]

SpawningPool_cleanup_removed(self) ==
    [RemoveFromStores(self, self.removed) EXCEPT !.removed = {}]

\* mutant: the counter is advanced before it is read
SpawningPool_spawn_entity_preinc(self, overflow_checks) ==
    [self  |-> [self EXCEPT !.next_id = self.next_id + 1],
     id    |-> self.next_id + 1,
     panic |-> FALSE]

\* self.next_id += 1 on u64: at the greatest EntityId the addition panics in a
\* build that checks overflow (no id is returned) and wraps to 0 in one that
\* does not
SpawningPool_spawn_entity(self, overflow_checks) ==
    IF self.next_id + 1 >= Modulus /\ overflow_checks
    THEN [self |-> self, id |-> self.next_id, panic |-> TRUE]
    ELSE [self  |-> [self EXCEPT !.next_id = (self.next_id + 1) % Modulus],
          id    |-> self.next_id,
          panic |-> FALSE]

\* mutant: a second remove_entity on an id takes it out of the tracker
SpawningPool_remove_entity_toggle(self, id) ==
    IF id \in self.removed
    THEN [self EXCEPT !.removed = self.removed \ {id}]
    ELSE [self EXCEPT !.removed = self.removed \cup {id}]

\* mutant: removal is physical at once, as in a pool without soft removal
SpawningPool_remove_entity_eager(self, id) ==
    [remove_overloaded(remove_overloaded(self, "pos", id), "vel", id)
        EXCEPT !.removed = self.removed \cup {id}]

SpawningPool_remove_entity(self, id) ==
    [self EXCEPT !.removed = self.removed \cup {id}]

\* mutant: set does not consult the tracker
SpawningPool_set_unchecked(self, ty, id, comp, overflow_checks) ==
    set_overloaded(self, ty, id, comp, overflow_checks)

SpawningPool_set(self, ty, id, comp, overflow_checks) ==
    IF id \notin self.removed
    THEN set_overloaded(self, ty, id, comp, overflow_checks)
    ELSE [self |-> self, panic |-> FALSE, abort |-> FALSE]

\* mutant: get does not consult the tracker
SpawningPool_get_unchecked(self, ty, id) ==
    get_overloaded(self, ty, id)

SpawningPool_get(self, ty, id) ==
    IF id \notin self.removed THEN get_overloaded(self, ty, id) ELSE None

SpawningPool_force_get(self, ty, id) ==
    get_overloaded(self, ty, id)

SpawningPool_get_mut(self, ty, id) ==
    IF id \notin self.removed THEN get_mut_overloaded(self, ty, id) ELSE None

\* mutant: removing a component of a tracked id forgets that it is tracked
SpawningPool_remove_untracks(self, ty, id) ==
    [remove_overloaded(self, ty, id) EXCEPT !.removed = self.removed \ {id}]

SpawningPool_remove(self, ty, id) ==
    IF id \notin self.removed THEN remove_overloaded(self, ty, id) ELSE self

\* mutant: get_all returns what the backend returns, tracked ids included
SpawningPool_get_all_unfiltered(self, ty, order) ==
    get_all_overloaded(self, ty, order)

SpawningPool_get_all(self, ty, order) ==
    SelectSeq(get_all_overloaded(self, ty, order),
              LAMBDA p : p[1] \notin self.removed)

(***************************************************************************)
(* The facade as a state machine.  op is the call that produced the        *)
(* current state, spawned the ids spawn_entity has returned so far, and    *)
(* purged the entities (ids spawn_entity had returned) that were tracked   *)
(* as removed when cleanup_removed ran.                                    *)
(***************************************************************************)
\* a call of the facade or of a backend: its name, the id passed (0 when it
\* takes none) and, for cleanup_removed, the ids that were tracked when it
\* was called and those of them that held a component of every type; for a
\* remove on the stores, held is the id if a store held a component for it.
Call(name, id, tracked, held) ==
    [name |-> name, id |-> id, tracked |-> tracked, held |-> held]

\* ids passed to the facade: the first id spawn_entity returns (unknown until
\* then) and an id it never returns, at or above the capacity of pos
EntityIds == {SpawningPool_new.next_id, HighId}
\* ids passed to set of a type: an id whose double overflows reaches the
\* growth of pos; vel is not indexed by id
SetIds(ty) == IF ty = "pos" THEN EntityIds \cup {WrapId} ELSE EntityIds
\* values passed with an id: every value with the first id, one with the
\* others
SetComponents(id) ==
    IF id = SpawningPool_new.next_id THEN Components ELSE {1}

Init ==
    /\ pool = SpawningPool_new
    /\ purged = {}
    /\ spawned = <<>>
    /\ dense = VectorStorage_new
    /\ sparse = HashMapStorage_new
    /\ op = Call("new", 0, {}, {})
    /\ panicked = FALSE
    /\ aborted = FALSE

SpawnEntity ==
    /\ ~aborted
    /\ pool.next_id <= MaxSpawn
    /\ \E overflow_checks \in BOOLEAN :
         LET r == SpawningPool_spawn_entity(pool, overflow_checks)
         IN  /\ pool' = r.self
             /\ spawned' = IF r.panic THEN spawned ELSE Append(spawned, r.id)
             /\ op' = Call("spawn_entity", r.id, {}, {})
             /\ panicked' = r.panic
    /\ UNCHANGED <<purged, dense, sparse, aborted>>

RemoveEntity(id) ==
    /\ ~aborted
    /\ pool' = SpawningPool_remove_entity(pool, id)
    /\ op' = Call("remove_entity", id, {}, {})
    /\ panicked' = FALSE
    /\ UNCHANGED <<purged, spawned, dense, sparse, aborted>>

CleanupRemoved ==
    /\ ~aborted
    /\ pool' = SpawningPool_cleanup_removed(pool)
    /\ purged' = purged \cup {id \in pool.removed : id < pool.next_id}
    /\ op' = Call("cleanup_removed", 0, pool.removed,
                 {id \in pool.removed : \A ty \in Types :
                     SpawningPool_force_get(pool, ty, id) # None})
    /\ panicked' = FALSE
    /\ UNCHANGED <<spawned, dense, sparse, aborted>>

Set(ty, id, comp) ==
    /\ ~aborted
    /\ \E overflow_checks \in BOOLEAN :
         LET r == SpawningPool_set(pool, ty, id, comp, overflow_checks)
         IN  /\ pool' = r.self
             /\ panicked' = r.panic
             /\ aborted' = r.abort
    /\ op' = Call("set", id, {}, {})
    /\ UNCHANGED <<purged, spawned, dense, sparse>>

Remove(ty, id) ==
    /\ ~aborted
    /\ pool' = SpawningPool_remove(pool, ty, id)
    /\ op' = Call("remove", id, {}, {})
    /\ panicked' = FALSE
    /\ UNCHANGED <<purged, spawned, dense, sparse, aborted>>

\* get_mut, and a write of comp through the handle when one is returned
GetMut(ty, id, comp) ==
    /\ ~aborted
    /\ pool' = IF SpawningPool_get_mut(pool, ty, id) # None
               THEN write_overloaded(pool, ty, id, comp)
               ELSE pool
    /\ op' = Call("get_mut", id, {}, {})
    /\ panicked' = FALSE
    /\ UNCHANGED <<purged, spawned, dense, sparse, aborted>>

\* the methods of the public trait ComponentLoader called on the pool itself:
\* they reach the backend without consulting the tracked-removed set
SetOverloaded(ty, id, comp) ==
    /\ ~aborted
    /\ \E overflow_checks \in BOOLEAN :
         LET r == set_overloaded(pool, ty, id, comp, overflow_checks)
         IN  /\ pool' = r.self
             /\ panicked' = r.panic
             /\ aborted' = r.abort
    /\ op' = Call("set_overloaded", id, {}, {})
    /\ UNCHANGED <<purged, spawned, dense, sparse>>

RemoveOverloaded(ty, id) ==
    /\ ~aborted
    /\ pool' = remove_overloaded(pool, ty, id)
    /\ op' = Call("remove_overloaded", id, {}, {})
    /\ panicked' = FALSE
    /\ UNCHANGED <<purged, spawned, dense, sparse, aborted>>

\* get_mut_overloaded, and a write of comp through the handle when one is
\* returned
GetMutOverloaded(ty, id, comp) ==
    /\ ~aborted
    /\ pool' = IF get_mut_overloaded(pool, ty, id) # None
               THEN write_overloaded(pool, ty, id, comp)
               ELSE pool
    /\ op' = Call("get_mut_overloaded", id, {}, {})
    /\ panicked' = FALSE
    /\ UNCHANGED <<purged, spawned, dense, sparse, aborted>>

Next ==
    \/ SpawnEntity
    \/ \E id \in EntityIds : RemoveEntity(id)
    \/ CleanupRemoved
    \/ \E ty \in Types : \E id \in SetIds(ty) : \E comp \in SetComponents(id) :
          Set(ty, id, comp)
    \/ \E ty \in Types, id \in EntityIds : Remove(ty, id)
    \/ \E ty \in Types, id \in EntityIds : \E comp \in SetComponents(id) :
          GetMut(ty, id, comp)
    \/ \E ty \in Types : \E id \in SetIds(ty) : \E comp \in SetComponents(id) :
          SetOverloaded(ty, id, comp)
    \/ \E ty \in Types, id \in EntityIds : RemoveOverloaded(ty, id)
    \/ \E ty \in Types, id \in EntityIds : \E comp \in SetComponents(id) :
          GetMutOverloaded(ty, id, comp)

Spec == Init /\ [][Next]_vars

(***************************************************************************)
(* A VectorStorage and a HashMapStorage driven by the same calls.          *)
(***************************************************************************)
StoreSet(id, comp) ==
    /\ ~aborted
    /\ \E overflow_checks \in BOOLEAN :
         LET r == VectorStorage_set(dense, id, comp, overflow_checks)
         IN  /\ dense' = r.self
             /\ panicked' = r.panic
             /\ aborted' = r.abort
    /\ sparse' = HashMapStorage_set(sparse, id, comp)
    /\ op' = Call("set", id, {}, {})
    /\ UNCHANGED <<pool, purged, spawned>>

StoreRemove(id) ==
    /\ ~aborted
    /\ dense' = VectorStorage_remove(dense, id)
    /\ sparse' = HashMapStorage_remove(sparse, id)
    /\ op' = Call("remove", id, {},
                  {j \in {id} : \/ VectorStorage_get(dense, j) # None
                                \/ HashMapStorage_get(sparse, j) # None})
    /\ panicked' = FALSE
    /\ UNCHANGED <<pool, purged, spawned, aborted>>

\* Storage::get_mut on each store, and a write of comp through the handles
\* that are returned
StoreGetMut(id, comp) ==
    /\ ~aborted
    /\ dense' = IF VectorStorage_get_mut(dense, id) # None
                THEN VectorStorage_write(dense, id, comp)
                ELSE dense
    /\ sparse' = IF HashMapStorage_get_mut(sparse, id) # None
                 THEN HashMapStorage_write(sparse, id, comp)
                 ELSE sparse
    /\ op' = Call("get_mut", id, {}, {})
    /\ panicked' = FALSE
    /\ UNCHANGED <<pool, purged, spawned, aborted>>

StoreNext ==
    \/ \E id \in StoreIds : \E comp \in StoreComponents(id) : StoreSet(id, comp)
    \/ \E id \in StoreIds : StoreRemove(id)
    \/ \E id \in StoreIds : \E comp \in StoreComponents(id) :
         StoreGetMut(id, comp)

StoreSpec == Init /\ [][StoreNext]_vars

(***************************************************************************)
(* Properties of the facade, checked under Spec                            *)
(***************************************************************************)

\* the calls of the facade, as against the methods of ComponentLoader
FacadeCalls ==
    {"spawn_entity", "remove_entity", "cleanup_removed", "set", "remove",
     "get_mut"}

\* C1: while an id is in the tracked-removed set, get<T> and get_mut<T> return
\* absent for it, for every component type, whatever the backends hold for it.
C1_RemovedIsHidden ==
    \A id \in pool.removed : \A ty \in Types :
        /\ SpawningPool_get(pool, ty, id) = None
        /\ SpawningPool_get_mut(pool, ty, id) = None

\* remove_entity has just tracked an id that holds a component of every type
C1_Witness ==
    /\ op.name = "remove_entity"
    /\ op.id \in pool.removed
    /\ \A ty \in Types : SpawningPool_force_get(pool, ty, op.id) # None

\* C2: set<T>(i, v) and remove<T>(i) called while i is tracked as removed change
\* nothing: force_get<T>(j) for every type and id, the tracked-removed set and
\* next_id are as before, and the call does not panic.
C2_RemovedWritesAreNoOps ==
    [][(op'.name \in {"set", "remove"} /\ op'.id \in pool.removed) =>
          /\ \A ty \in Types : \A j \in EntityIds \cup {WrapId} :
                SpawningPool_force_get(pool', ty, j) =
                    SpawningPool_force_get(pool, ty, j)
          /\ pool'.pos = pool.pos
          /\ pool'.vel = pool.vel
          /\ pool'.removed = pool.removed
          /\ pool'.next_id = pool.next_id
          /\ ~panicked'
          /\ ~aborted']_vars

\* set has just been called on a tracked id that holds a component
C2_Witness ==
    /\ op.name = "set"
    /\ op.id \in pool.removed
    /\ \A ty \in Types : SpawningPool_force_get(pool, ty, op.id) # None

\* C3: from remove_entity(i) on and for as long as i stays tracked (that is, up
\* to the next cleanup_removed), no call of the facade changes what
\* force_get<T>(i) returns; and force_get<T>(i) is the backend's own get(i),
\* whatever the tracked-removed set holds.
C3_ForceGetKeepsData ==
    [][\A ty \in Types : \A id \in EntityIds :
          /\ (op'.name \in FacadeCalls /\ id \in pool'.removed) =>
                SpawningPool_force_get(pool', ty, id) =
                    SpawningPool_force_get(pool, ty, id)
          /\ SpawningPool_force_get(pool', "pos", id) =
                VectorStorage_get(pool'.pos, id)
          /\ SpawningPool_force_get(pool', "vel", id) =
                HashMapStorage_get(pool'.vel, id)]_vars

\* C4: right after cleanup_removed the tracked-removed set is empty and
\* force_get<T>(i) is absent for every type and every id i that was tracked
\* when it was called, ids at or above the capacity of pos included.
C4_CleanupPurges ==
    [][op'.name = "cleanup_removed" =>
          /\ pool'.removed = {}
          /\ \A id \in pool.removed : \A ty \in Types :
                SpawningPool_force_get(pool', ty, id) = None]_vars

\* cleanup_removed has just purged an id that held a component of every type
\* and a tracked id at or above the capacity of pos
C4_Witness ==
    /\ op.name = "cleanup_removed"
    /\ op.held # {}
    /\ HighId \in op.tracked
    /\ HighId >= pool.pos.size

\* C5: the k-th call of spawn_entity returns k, whatever calls come between;
\* next_id never decreases and only spawn_entity changes it.
C5_SpawnCountsUp ==
    /\ [](\A k \in 1 .. Len(spawned) : spawned[k] = k)
    /\ [][/\ pool'.next_id >= pool.next_id
          /\ pool'.next_id # pool.next_id => op'.name = "spawn_entity"]_vars

\* spawn_entity has just returned its second id, after the first one was
\* soft-removed and purged
C5_Witness ==
    /\ op.name = "spawn_entity"
    /\ Len(spawned) >= 2
    /\ spawned[1] \in purged


\* the lifecycle stage of an id: 0 unborn (not yet returned by spawn_entity),
\* 1 live, 2 soft-removed (in the tracked-removed set), 3 purged (the entity
\* was tracked when cleanup_removed ran and is tracked no more)
Stage(self, pg, id) ==
    IF id \in self.removed THEN 2
    ELSE IF id \in pg THEN 3
    ELSE IF id < self.next_id THEN 1
    ELSE 0

\* C6 as stated, for the ids spawn_entity has returned: no facade call moves an id to
\* an earlier stage of unborn -> live -> soft-removed -> purged, and a purged
\* id stays purged: it is never tracked again and never again holds a
\* component get<T> or force_get<T> can see.
C6_LifecycleOnlyForward ==
    [][\A id \in EntityIds : (op'.name \in FacadeCalls /\ id < pool'.next_id) =>
          /\ Stage(pool', purged', id) >= Stage(pool, purged, id)
          /\ id \in purged' =>
                /\ id \notin pool'.removed
                /\ \A ty \in Types :
                      /\ SpawningPool_get(pool', ty, id) = None
                      /\ SpawningPool_force_get(pool', ty, id) = None]_vars

\* C6 amended, for calls of the facade: an id spawn_entity returned is never
\* unborn again; a tracked id
\* leaves the tracked-removed set only by cleanup_removed, which purges it (no
\* backend holds a component for it right after); a purged id is tracked again
\* only by a remove_entity on it, and an id without components gets one only by
\* a set on it.
C6_ForwardUntilPurged ==
    [][\A id \in EntityIds : op'.name \in FacadeCalls =>
          /\ id < pool.next_id => id < pool'.next_id
          /\ id \in purged => id \in purged'
          /\ (id \in pool.removed /\ id \notin pool'.removed) =>
                /\ op'.name = "cleanup_removed"
                /\ id < pool.next_id => id \in purged'
                /\ \A ty \in Types : SpawningPool_force_get(pool', ty, id) = None
          /\ (id \in purged /\ id \notin pool.removed /\ id \in pool'.removed) =>
                (op'.name = "remove_entity" /\ op'.id = id)
          /\ (/\ \A ty \in Types : SpawningPool_force_get(pool, ty, id) = None
              /\ \E ty \in Types : SpawningPool_force_get(pool', ty, id) # None) =>
                (op'.name = "set" /\ op'.id = id /\ id \notin pool.removed)]_vars

\* an id that was spawned, soft-removed and purged has just been given a
\* component again by set
C6_Witness ==
    /\ op.name = "set"
    /\ op.id \in purged
    /\ op.id < pool.next_id
    /\ op.id \notin pool.removed
    /\ \E ty \in Types : SpawningPool_get(pool, ty, op.id) # None

\* an unknown id: spawn_entity has not returned it and no backend holds a
\* component for it
Unknown(self, id) ==
    /\ id >= self.next_id
    /\ \A ty \in Types : SpawningPool_force_get(self, ty, id) = None

\* C7 as stated: remove<T> and remove_entity called with an unknown id raise no
\* error and leave the whole facade (backends, tracked-removed set, next_id) as
\* it was.
C7_UnknownIdNoOp ==
    [][\A id \in EntityIds :
          (/\ Unknown(pool, id)
           /\ op'.name \in {"remove", "remove_entity"}
           /\ op'.id = id) =>
                (pool' = pool /\ ~panicked' /\ ~aborted')]_vars

\* C7 amended: with an unknown id, backend remove and remove<T> change nothing
\* and raise no error; remove_entity raises no error and leaves every backend
\* and next_id as they were but adds the id to the tracked-removed set, so an
\* id tracked before spawn_entity returns it is hidden from get<T> from birth.
C7_UnknownIdRemoveEntityTracks ==
    [][/\ \A id \in EntityIds : Unknown(pool, id) =>
            /\ VectorStorage_remove(pool.pos, id) = pool.pos
            /\ HashMapStorage_remove(pool.vel, id) = pool.vel
            /\ (op'.name = "remove" /\ op'.id = id) =>
                    (pool' = pool /\ ~panicked' /\ ~aborted')
            /\ (op'.name = "remove_entity" /\ op'.id = id) =>
                    /\ pool'.pos = pool.pos
                    /\ pool'.vel = pool.vel
                    /\ pool'.next_id = pool.next_id
                    /\ pool'.removed = pool.removed \cup {id}
                    /\ ~panicked'
                    /\ ~aborted'
       /\ (op'.name = "spawn_entity" /\ op'.id \in pool.removed) =>
            \A ty \in Types : SpawningPool_get(pool', ty, op'.id) = None]_vars

\* remove_entity has just been called with an unknown id, which is now tracked
C7_Witness ==
    /\ op.name = "remove_entity"
    /\ Unknown(pool, op.id)
    /\ op.id \in pool.removed

(***************************************************************************)
(* Properties of the backends, checked under StoreSpec                     *)
(***************************************************************************)

\* C8: VectorStorage::set never fails: for every id of EntityId's width and
\* every reachable store, set(id, v) completes without a panic and get(id)
\* returns v afterwards.
C8_DenseSetNeverFails ==
    [][\A id \in StoreIds : \A comp \in Components :
          StoreSet(id, comp) =>
              /\ ~panicked'
              /\ ~aborted'
              /\ VectorStorage_get(dense', id) = Some(comp)]_vars

\* C9: for both backends, every reachable store, every id and value, set(i, v)
\* followed by get(i) returns v, also when i is at or above the capacity of the
\* VectorStorage; on a fresh VectorStorage set(GrowId, v) leaves the capacity
\* above GrowId, get(GrowId) = v and get(InitialSize / 2) absent.
C9_SetThenGet ==
    [][\A id \in StoreIds : \A comp \in Components :
          StoreSet(id, comp) =>
              /\ ~panicked'
              /\ ~aborted'
              /\ VectorStorage_get(dense', id) = Some(comp)
              /\ HashMapStorage_get(sparse', id) = Some(comp)
              /\ (dense = VectorStorage_new /\ id = GrowId) =>
                    /\ dense'.size >= GrowId + 1
                    /\ Len(dense'.storage) >= GrowId + 1
                    /\ VectorStorage_get(dense', InitialSize \div 2) = None]_vars

\* the elements of a sequence, order ignored
Elements(seq) == {seq[n] : n \in DOMAIN seq}

\* C10: a VectorStorage and a HashMapStorage started empty and driven by the
\* same set and remove calls both complete every call, and after every call
\* get(i) is the same in both for every id and get_all holds the same pairs.
C10_BackendsInterchangeable ==
    /\ ~panicked
    /\ ~aborted
    /\ \A id \in ProbeIds :
          VectorStorage_get(dense, id) = HashMapStorage_get(sparse, id)
    /\ \A order \in KeyOrders(sparse) :
          Elements(VectorStorage_get_all(dense)) =
              Elements(HashMapStorage_get_all(sparse, order))


\* C12: for both backends, every reachable store and every id, remove(i)
\* followed by get(i) returns absent, also for an id at or above the capacity
\* of the VectorStorage.
C12_RemoveThenGet ==
    [][\A id \in StoreIds :
          StoreRemove(id) =>
              /\ VectorStorage_get(dense', id) = None
              /\ HashMapStorage_get(sparse', id) = None]_vars

\* remove has just been called on an id both stores held a component for
C12_Witness ==
    /\ op.name = "remove"
    /\ op.held = {op.id}
    /\ VectorStorage_get(dense, op.id) = None
    /\ HashMapStorage_get(sparse, op.id) = None

\* C13: for both backends, after any sequence of set and remove calls, get(i)
\* is absent for every id i that was never passed to set: get(i) is absent at
\* the start, becomes present only in a set call on i, and is absent
\* throughout for the ids no call passes, those inside the slots a growth of
\* the VectorStorage allocated and those at or above its capacity included.
C13_NeverSetIsAbsent ==
    /\ [](\A id \in ProbeIds \ StoreIds :
             /\ VectorStorage_get(dense, id) = None
             /\ HashMapStorage_get(sparse, id) = None)
    /\ [][\A id \in ProbeIds :
             /\ VectorStorage_get(dense', id) # None =>
                   \/ VectorStorage_get(dense, id) # None
                   \/ op'.name = "set" /\ op'.id = id
             /\ HashMapStorage_get(sparse', id) # None =>
                   \/ HashMapStorage_get(sparse, id) # None
                   \/ op'.name = "set" /\ op'.id = id]_vars

\* the set of the growth scenario has grown the VectorStorage on a store no
\* other id was passed to: the ids in the slots the growth added and the ids
\* at or above the capacity are absent
C13_Witness ==
    /\ op.name = "set"
    /\ op.id = GrowId
    /\ ~panicked
    /\ dense.size = 2 * GrowId
    /\ DOMAIN sparse.storage = {GrowId}
    /\ VectorStorage_get(dense, GrowId) # None
    /\ \A id \in ProbeIds \ {GrowId} : VectorStorage_get(dense, id) = None

\* C16: growth of the VectorStorage.  set(id, v) changes the capacity only
\* when id >= capacity, and then the new capacity is exactly id * 2; remove
\* never changes it; so over any sequence of set and remove calls from the
\* initial capacity the capacity never decreases and always equals the
\* length of the slot sequence.
C16_DenseGrowth ==
    /\ [](/\ dense.size = Len(dense.storage)
          /\ dense.size >= InitialSize)
    /\ [][/\ dense'.size >= dense.size
          /\ op'.name = "set" =>
                dense'.size = IF op'.id >= dense.size THEN op'.id * 2
                                                      ELSE dense.size
          /\ op'.name = "remove" => dense'.size = dense.size]_vars

\* C19: a backend's set(i, v) and remove(i) affect only id i: after the call
\* get(j) is what it was for every other id j, for both backends, also when
\* the set makes the VectorStorage grow.
C19_OtherIdsUntouched ==
    [][op'.name \in {"set", "remove"} =>
          \A j \in ProbeIds \ {op'.id} :
              /\ VectorStorage_get(dense', j) = VectorStorage_get(dense, j)
              /\ HashMapStorage_get(sparse', j) = HashMapStorage_get(sparse, j)]_vars

(***************************************************************************)
(* Further properties of the facade, checked under Spec                    *)
(***************************************************************************)

\* C11: in every reachable state and for every component type, get_all<T>()
\* holds no id that is in the tracked-removed set, whatever order the backend
\* iterates in.
C11_GetAllSkipsRemoved ==
    \A ty \in Types : \A order \in KeyOrders(pool.vel) :
        \A pair \in Elements(SpawningPool_get_all(pool, ty, order)) :
            pair[1] \notin pool.removed

\* one id is tracked while pos and vel hold a component for it and for
\* another id, so get_all<T>() has a pair to return and one to leave out
C11_Witness ==
    \E id \in pool.removed : \A ty \in Types :
        /\ SpawningPool_force_get(pool, ty, id) # None
        /\ \A order \in KeyOrders(pool.vel) :
              /\ SpawningPool_get_all(pool, ty, order) # <<>>
              /\ Len(get_all_overloaded(pool, ty, order)) >
                    Len(SpawningPool_get_all(pool, ty, order))

\* the backend of a component type
Backend(self, ty) == IF ty = "pos" THEN self.pos ELSE self.vel

\* C14: component types are independent.  In every reachable state set<A>(e, v)
\* and remove<A>(e) leave the backend of every other type as it is; after
\* set<A>(e, v) on a spawned, untracked entity e get<A>(e) returns v and
\* get<B>(e) is what it was (absent if B was never attached); one
\* remove_entity(e) hides e from get of every type.
C14_TypesIndependent ==
    \A ty \in Types : \A other \in Types \ {ty} : \A id \in SetIds(ty) :
        /\ Backend(SpawningPool_remove(pool, ty, id), other) =
               Backend(pool, other)
        /\ \A ty2 \in Types :
              SpawningPool_get(SpawningPool_remove_entity(pool, id), ty2, id) =
                  None
        /\ \A comp \in Components : \A overflow_checks \in BOOLEAN :
              LET r == SpawningPool_set(pool, ty, id, comp, overflow_checks)
              IN  /\ Backend(r.self, other) = Backend(pool, other)
                  /\ id \in Elements(spawned) \ pool.removed =>
                        /\ ~r.panic
                        /\ ~r.abort
                        /\ SpawningPool_get(r.self, ty, id) = Some(comp)
                        /\ SpawningPool_get(r.self, other, id) =
                               SpawningPool_get(pool, other, id)

\* remove_entity has just hidden a spawned entity that has a component of one
\* type attached and none of the other
C14_Witness ==
    /\ op.name = "remove_entity"
    /\ op.id \in Elements(spawned)
    /\ \E ty \in Types :
          /\ SpawningPool_force_get(pool, ty, op.id) # None
          /\ \A other \in Types \ {ty} :
                SpawningPool_force_get(pool, other, op.id) = None
    /\ \A ty \in Types : SpawningPool_get(pool, ty, op.id) = None

\* C15: for both backends, when id i is not tracked as removed and holds a
\* component of type T, a value written through the handle get_mut<T>(i)
\* returns is what get<T>(i), get_mut<T>(i) and force_get<T>(i) return
\* afterwards, and no other id's or type's component, nor the tracker or the
\* counter, changes; while i stays untracked, no call of the facade other
\* than a set, remove or get_mut on i changes what get<T>(i) returns.
C15_GetMutWritesThrough ==
    /\ [](\A ty \in Types : \A id \in SetIds(ty) \ pool.removed :
             SpawningPool_get_mut(pool, ty, id) # None =>
                 \A comp \in Components :
                     LET q == write_overloaded(pool, ty, id, comp)
                     IN  /\ SpawningPool_get(q, ty, id) = Some(comp)
                         /\ SpawningPool_get_mut(q, ty, id) = Some(comp)
                         /\ SpawningPool_force_get(q, ty, id) = Some(comp)
                         /\ \A j \in (EntityIds \cup {WrapId}) \ {id} :
                               SpawningPool_force_get(q, ty, j) =
                                   SpawningPool_force_get(pool, ty, j)
                         /\ \A other \in Types \ {ty} :
                               Backend(q, other) = Backend(pool, other)
                         /\ q.removed = pool.removed
                         /\ q.next_id = pool.next_id)
    /\ [][\A ty \in Types : \A id \in EntityIds \cup {WrapId} :
             (/\ op'.name \in FacadeCalls
              /\ id \notin pool.removed
              /\ id \notin pool'.removed
              /\ SpawningPool_get(pool', ty, id) # SpawningPool_get(pool, ty, id))
                 => (op'.name \in {"set", "remove", "get_mut"} /\ op'.id = id)]_vars

\* C17: remove_entity(id) changes nothing except adding id to the
\* tracked-removed set: the backends (so force_get<T>(j) for every T and j) and
\* next_id are unchanged, and a second remove_entity(id) leaves the facade as
\* the first one left it.
C17_RemoveEntityOnlyTracks ==
    /\ [](\A id \in EntityIds :
             LET q == SpawningPool_remove_entity(pool, id)
             IN  /\ q.removed = pool.removed \cup {id}
                 /\ q.pos = pool.pos
                 /\ q.vel = pool.vel
                 /\ q.next_id = pool.next_id
                 /\ \A ty \in Types : \A j \in EntityIds \cup {WrapId} :
                       SpawningPool_force_get(q, ty, j) =
                           SpawningPool_force_get(pool, ty, j)
                 /\ SpawningPool_remove_entity(q, id) = q)
    /\ [][op'.name = "remove_entity" =>
             /\ pool'.removed = pool.removed \cup {op'.id}
             /\ pool'.pos = pool.pos
             /\ pool'.vel = pool.vel
             /\ pool'.next_id = pool.next_id
             /\ ~panicked'
             /\ ~aborted']_vars

\* remove_entity has just been called on an id while another id is tracked
\* too, both backends hold components and an entity has been spawned
C17_Witness ==
    /\ op.name = "remove_entity"
    /\ pool.removed = EntityIds
    /\ pool.next_id > SpawningPool_new.next_id
    /\ pool.pos # VectorStorage_new
    /\ pool.vel # HashMapStorage_new

\* C18: in every reachable state and for every component type T, get_all<T>()
\* returns exactly the pairs (i, c) with get<T>(i) = Some(c): every pair it
\* returns is what get returns for its id, every id for which get is present
\* has its pair, no id appears twice and there are no further pairs; for
\* every iteration order of the HashMap.
C18_GetAllIsGet ==
    \A ty \in Types : \A order \in KeyOrders(pool.vel) :
        LET all == SpawningPool_get_all(pool, ty, order)
            ids == {all[n][1] : n \in DOMAIN all}
            present == {id \in ProbeIds \cup EntityIds :
                           SpawningPool_get(pool, ty, id) # None}
        IN  /\ \A pair \in Elements(all) :
                  SpawningPool_get(pool, ty, pair[1]) = Some(pair[2])
            /\ \A id \in present :
                  <<id, SpawningPool_get(pool, ty, id)[1]>> \in Elements(all)
            /\ Cardinality(ids) = Len(all)
            /\ Cardinality(present) = Len(all)

\* both backends hold a component for two untracked ids, one of them at or
\* above the initial capacity, so get_all<T>() returns two pairs
C18_Witness ==
    /\ ~panicked
    /\ \A ty \in Types :
          /\ \A id \in EntityIds : SpawningPool_get(pool, ty, id) # None
          /\ \A order \in KeyOrders(pool.vel) :
                Len(SpawningPool_get_all(pool, ty, order)) = Cardinality(EntityIds)

\* C20: cleanup_removed purges only tracked ids: for every id j that is not
\* tracked when it is called and every component type T, get<T>(j) and
\* force_get<T>(j) return afterwards what they returned before, next_id is
\* unchanged and the call does not panic.
C20_CleanupKeepsUntracked ==
    [][op'.name = "cleanup_removed" =>
          /\ \A ty \in Types : \A j \in (ProbeIds \cup EntityIds) \ pool.removed :
                /\ SpawningPool_get(pool', ty, j) = SpawningPool_get(pool, ty, j)
                /\ SpawningPool_force_get(pool', ty, j) =
                       SpawningPool_force_get(pool, ty, j)
          /\ pool'.next_id = pool.next_id
          /\ ~panicked'
          /\ ~aborted']_vars

\* cleanup_removed has just purged a tracked id that held components while
\* an untracked id holds a component of every type
C20_Witness ==
    /\ op.name = "cleanup_removed"
    /\ op.held # {}
    /\ \E j \in EntityIds \ op.tracked : \A ty \in Types :
          /\ SpawningPool_get(pool, ty, j) # None
          /\ SpawningPool_force_get(pool, ty, j) # None

====
